---- MODULE Spec2Model ----
(***************************************************************************)
(* The editor of Abduljebar49/text-editor as a state machine: the state    *)
(* held by the useTextEditor hook (src/src/hooks/useTextEditor.ts), the    *)
(* editable region it drives, the image pipeline and the save / export     *)
(* handlers of the TextEditor component (src/src/components/TextEditor.tsx *)
(* and its ref-API revision, src/unnamed/part_009).                        *)
(*                                                                         *)
(* A string is a sequence of one-character strings.  The editable region   *)
(* is a sequence of nodes (text characters and img elements); innerHTML    *)
(* serialises it to a string.                                              *)
(***************************************************************************)
EXTENDS Integers, Sequences, FiniteSets, TLC

\* ------------------------------------------------------------------ bounds
MaxImages == 2      \* files accepted by insertImage over a run
MaxFlows == 2       \* save / export / Upload Now handlers in flight at once
EditorImages == 1   \* files accepted over a run of the whole editor
EditorFlows == 1    \* handlers in flight at once in the whole editor
MaxNodes == 1       \* nodes in the editable region beyond which nothing is typed
MaxTimers == 1      \* deferred (setTimeout 0) resyncs pending at once
DebounceDelay == 2  \* debounceDelay, in the steps of time that are told apart
MaxClock == 2       \* readings of the clock (new Date()) that are told apart

MaxLen == 4         \* length of the strings handed to updateContent directly

\* ------------------------------------------------------- program constants
maxImageSize == 5242880        \* 5 * 1024 * 1024
MaxTitleLength == 200          \* z.string().max(200)

allowedImageTypes == {"image/jpeg", "image/png", "image/gif", "image/webp"}

DefaultTitle ==
    <<"U","n","t","i","t","l","e","d"," ","D","o","c","u","m","e","n","t">>

\* ----------------------------------------------------------------- strings
Whitespace == {" ", "\n", "\t"}

IsWs(c) == c \in Whitespace

RECURSIVE DropLeadingWs(_)
DropLeadingWs(s) ==
    IF s # <<>> /\ IsWs(Head(s)) THEN DropLeadingWs(Tail(s)) ELSE s

RECURSIVE DropTrailingWs(_)
DropTrailingWs(s) ==
    IF s # <<>> /\ IsWs(s[Len(s)])
    THEN DropTrailingWs(SubSeq(s, 1, Len(s) - 1))
    ELSE s

\* String.prototype.trim
Trim(s) == DropTrailingWs(DropLeadingWs(s))

\* String.prototype.split(/\s+/): the pieces between maximal whitespace runs;
\* a leading or trailing run yields an empty first or last piece, and the
\* empty string yields one empty piece.
RECURSIVE SplitAcc(_, _, _)
SplitAcc(s, cur, acc) ==
    IF s = <<>> THEN Append(acc, cur)
    ELSE IF IsWs(Head(s))
         THEN SplitAcc(DropLeadingWs(s), <<>>, Append(acc, cur))
         ELSE SplitAcc(Tail(s), Append(cur, Head(s)), acc)

Split(s) == SplitAcc(s, <<>>, <<>>)

\* A plausible slip: the word count taken without trimming first.
WordCountUntrimmed(content) ==
    IF content # <<>> THEN Len(Split(content)) ELSE 0

\* content.trim() ? content.trim().split(/\s+/).length : 0
WordCount(content) ==
    IF Trim(content) # <<>> THEN Len(Split(Trim(content))) ELSE 0

\* A plausible slip: whitespace is left out of the character count.
CharacterCountNoSpaces(content) ==
    Cardinality({i \in 1..Len(content) : ~IsWs(content[i])})

\* content.length
CharacterCount(content) == Len(content)

\* ------------------------------------------------------ the editable region
TextNode(c) == [kind |-> "text", ch |-> c, id |-> "", src |-> <<>>, cls |-> <<>>]

\* reader.result of readAsDataURL(file): the placeholder URL of image id
DataUrl(id) == <<"d", id>>

\* the URL the uploader returns for image id
UploadedUrl(id) == <<"u", id>>

\* String(undefined), what img.src = undefined stores
UndefinedUrl == <<"u","n","d","e","f","i","n","e","d">>

\* document.createElement('img') with src, class and data-image-id set
ImgNode(id, src) ==
    [kind |-> "img", ch |-> "", id |-> id, src |-> src, cls |-> <<>>]

\* A plausible slip: the element is left unmarked.
ClassListAddNothing(cls, token) == cls

\* classList.add(token): the token is appended unless already present
ClassListAdd(cls, token) ==
    IF \E i \in 1..Len(cls) : cls[i] = token THEN cls ELSE Append(cls, token)

\* the characters an added class token contributes to the class attribute
RECURSIVE ClassChars(_)
ClassChars(cls) ==
    IF cls = <<>> THEN <<>>
    ELSE (IF Head(cls) = "uploaded"
          THEN <<" ","u","p","l","o","a","d","e","d">>
          ELSE <<" ","f","a","i","l","e","d">>) \o ClassChars(Tail(cls))

\* the markup of one node: a text character escaped as the HTML serialiser
\* does, an img element as its tag with its attributes in creation order
NodeHTML(n) ==
    IF n.kind = "text"
    THEN CASE n.ch = "&" -> <<"&","a","m","p",";">>
           [] n.ch = "<" -> <<"&","l","t",";">>
           [] n.ch = ">" -> <<"&","g","t",";">>
           [] OTHER -> <<n.ch>>
    ELSE <<"<","i","m","g"," ","s","r","c","=">> \o n.src
         \o <<" ","c","l","a","s","s","=","b","o","r","d","e","r">>
         \o ClassChars(n.cls)
         \o <<" ","i","d","=", n.id, ">">>

RECURSIVE innerHTML(_)
innerHTML(nodes) ==
    IF nodes = <<>> THEN <<>>
    ELSE NodeHTML(Head(nodes)) \o innerHTML(Tail(nodes))

\* element.innerHTML = s for a string s of plain text: one text node per
\* character (the strings of InitialContents hold no markup)
RECURSIVE ParseHTML(_)
ParseHTML(s) ==
    IF s = <<>> THEN <<>>
    ELSE <<TextNode(Head(s))>> \o ParseHTML(Tail(s))

\* querySelector(`img[data-image-id="${id}"]`): the position of the first
\* img carrying the id, 0 when there is none
ImgIndex(nodes, id) ==
    LET hits == {i \in 1..Len(nodes) : nodes[i].kind = "img" /\ nodes[i].id = id}
    IN IF hits = {} THEN 0 ELSE CHOOSE i \in hits : \A j \in hits : i <= j

InsertAt(nodes, pos, n) ==
    SubSeq(nodes, 1, pos) \o <<n>> \o SubSeq(nodes, pos + 1, Len(nodes))

\* ------------------------------------------------------------- editor state
\* useState initialiser of the hook
InitialEditorState(ic) ==
    [content |-> ic,
     title |-> DefaultTitle,
     wordCount |-> IF Trim(ic) # <<>> THEN Len(Split(Trim(ic))) ELSE 0,
     characterCount |-> Len(ic),
     hasUnsavedChanges |-> FALSE,
     pendingImages |-> <<>>]

\* A plausible slip: the content replaced, the counts left as they were.
UpdateContentStateStale(prev, content) ==
    [prev EXCEPT !.content = content, !.hasUnsavedChanges = TRUE]

\* the updater of updateContent: setEditorState(prev => ({...prev, content,
\* wordCount, characterCount, hasUnsavedChanges: true}))
UpdateContentState(prev, content) ==
    [prev EXCEPT !.content = content,
                 !.wordCount = WordCount(content),
                 !.characterCount = CharacterCount(content),
                 !.hasUnsavedChanges = TRUE]

\* the updater of updateTitle
UpdateTitleState(prev, title) ==
    [prev EXCEPT !.title = title, !.hasUnsavedChanges = TRUE]

\* A plausible slip: the effect leaves hasUnsavedChanges as it was.
InitialContentStateDirty(prev, ic) ==
    [prev EXCEPT !.content = ic,
                 !.wordCount = IF Trim(ic) # <<>> THEN Len(Split(Trim(ic))) ELSE 0,
                 !.characterCount = Len(ic)]

\* the updater of the initialContent effect
InitialContentState(prev, ic) ==
    [prev EXCEPT !.content = ic,
                 !.wordCount = IF Trim(ic) # <<>> THEN Len(Split(Trim(ic))) ELSE 0,
                 !.characterCount = Len(ic),
                 !.hasUnsavedChanges = FALSE]

\* A plausible slip: clearing keeps the list of pending images.
ClearedStateKeeping(prev) ==
    [content |-> <<>>, title |-> DefaultTitle, wordCount |-> 0,
     characterCount |-> 0, hasUnsavedChanges |-> FALSE,
     pendingImages |-> prev.pendingImages]

\* the state clearEditor sets (prev is not read)
ClearedState(prev) ==
    [content |-> <<>>, title |-> DefaultTitle, wordCount |-> 0,
     characterCount |-> 0, hasUnsavedChanges |-> FALSE,
     pendingImages |-> <<>>]

\* A plausible slip: the status written without the test on the id.
SetStatusAll(prev, id, status) ==
    [prev EXCEPT !.pendingImages =
        [i \in 1..Len(prev.pendingImages) |->
            [prev.pendingImages[i] EXCEPT !.status = status]]]

\* A plausible slip: a failed upload is not written to its record.
SetStatusOnSuccess(prev, id, status) ==
    [prev EXCEPT !.pendingImages =
        [i \in 1..Len(prev.pendingImages) |->
            IF prev.pendingImages[i].id = id /\ status # "failed"
            THEN [prev.pendingImages[i] EXCEPT !.status = status]
            ELSE prev.pendingImages[i]]]

\* prev.pendingImages.map(img => img.id === id ? {...img, status} : img)
SetStatus(prev, id, status) ==
    [prev EXCEPT !.pendingImages =
        [i \in 1..Len(prev.pendingImages) |->
            IF prev.pendingImages[i].id = id
            THEN [prev.pendingImages[i] EXCEPT !.status = status]
            ELSE prev.pendingImages[i]]]

\* A plausible slip: the new record put in front of the list.
AddPendingFirst(prev, id, file, url) ==
    [prev EXCEPT !.pendingImages =
        <<[id |-> id, file |-> file, placeholderUrl |-> url,
           status |-> "pending"]>> \o prev.pendingImages]

\* [...prev.pendingImages, {id, file, placeholderUrl, status: 'pending'}]
AddPending(prev, id, file, url) ==
    [prev EXCEPT !.pendingImages =
        Append(prev.pendingImages,
               [id |-> id, file |-> file, placeholderUrl |-> url,
                status |-> "pending"])]

\* the count the component renders in the toolbar badge, the status bar and
\* the 'pending upload' notice: pendingImagesCount={editorState.pendingImages.length}
pendingImagesCount(st) == Len(st.pendingImages)

\* ------------------------------------------------------ validation, export
\* getValidationResult of the hook: the data is assembled from the state of
\* the render and the live editable region, and its metadata is stamped with
\* new Date() read at the call (time); nothing is checked and nothing can
\* throw, so success is always true.
getValidationResult(st, nodes, time) ==
    LET content == IF innerHTML(nodes) # <<>> THEN innerHTML(nodes) ELSE st.content
    IN [success |-> TRUE,
        data |-> [title |-> st.title,
                  content |-> content,
                  metadata |-> [createdAt |-> time,
                                updatedAt |-> time,
                                wordCount |-> st.wordCount,
                                characterCount |-> st.characterCount]]]

\* what a handler that has not called getValidationResult holds of it
NoValidation ==
    [success |-> FALSE,
     data |-> [title |-> <<>>, content |-> <<>>,
               metadata |-> [createdAt |-> 0, updatedAt |-> 0, wordCount |-> 0,
                             characterCount |-> 0]]]

DocumentWord == <<"D","o","c","u","m","e","n","t">>

\* one piece of the exported document
Part(part, cls, text, created, words, chars) ==
    [part |-> part, cls |-> cls, text |-> text, created |-> created,
     words |-> words, chars |-> chars]

NoDoc == <<>>

\* A plausible slip: the style block is tied to includeMeta.
ExportDocumentOneFlag(data, includeStyles, includeMeta) ==
    <<Part("title", "", IF data.title # <<>> THEN data.title ELSE DocumentWord,
           0, 0, 0)>>
    \o (IF includeMeta THEN <<Part("style", "", <<>>, 0, 0, 0)>> ELSE <<>>)
    \o (IF includeMeta
        THEN <<Part("document-meta", "document-meta", data.title,
                    data.metadata.createdAt, data.metadata.wordCount,
                    data.metadata.characterCount)>>
        ELSE <<>>)
    \o <<Part("content", IF includeStyles THEN "readonly-content" ELSE "",
              data.content, 0, 0, 0)>>

\* the document exportToHTML assembles from validated data, piece by piece
\* as the code appends to html: the <title> (data.title || 'Document'), the
\* <style> block if includeStyles, the document-meta block (title heading,
\* created time, word and character counts) if includeMeta, and the content
\* in a div whose class depends on includeStyles
ExportDocument(data, includeStyles, includeMeta) ==
    <<Part("title", "", IF data.title # <<>> THEN data.title ELSE DocumentWord,
           0, 0, 0)>>
    \o (IF includeStyles THEN <<Part("style", "", <<>>, 0, 0, 0)>> ELSE <<>>)
    \o (IF includeMeta
        THEN <<Part("document-meta", "document-meta", data.title,
                    data.metadata.createdAt, data.metadata.wordCount,
                    data.metadata.characterCount)>>
        ELSE <<>>)
    \o <<Part("content", IF includeStyles THEN "readonly-content" ELSE "",
              data.content, 0, 0, 0)>>

\* exportToHTML of the hook: throws when getValidationResult reports no
\* success, else returns the document
exportToHTML(st, nodes, includeStyles, includeMeta, time) ==
    LET validation == getValidationResult(st, nodes, time)
    IN IF ~validation.success
       THEN [threw |-> TRUE, doc |-> NoDoc]
       ELSE [threw |-> FALSE,
             doc |-> ExportDocument(validation.data, includeStyles, includeMeta)]

\* -------------------------------------------------------------- image files
Files ==
    {[type |-> "image/png", size |-> maxImageSize],
     [type |-> "image/png", size |-> maxImageSize + 1],
     [type |-> "image/bmp", size |-> maxImageSize],
     [type |-> "text/plain", size |-> maxImageSize]}

\* A plausible slip: the size limit is not enforced.
ValidateImageFileTypeOnly(file) ==
    IF file.type \notin allowedImageTypes
    THEN [valid |-> FALSE, error |-> "Invalid file type"]
    ELSE [valid |-> TRUE, error |-> ""]

\* validateImageFile: the type is tested first, then the size; error is the
\* first sentence of the message insertImage shows
validateImageFile(file) ==
    IF file.type \notin allowedImageTypes
    THEN [valid |-> FALSE, error |-> "Invalid file type"]
    ELSE IF file.size > maxImageSize
         THEN [valid |-> FALSE, error |-> "File too large"]
         ELSE [valid |-> TRUE, error |-> ""]

\* image-${Date.now()}-${random}: the n-th identifier generated
ImageIds == <<"1", "2", "3", "4">>

ImageIdSet == {ImageIds[n] : n \in 1..MaxImages}

IsImageType(type) == type \in {"image/png", "image/bmp"}

\* -------------------------------------------------------------------- state
VARIABLES
    editorState,                \* useState<EditorState>
    dom,                        \* editorRef.current: the editable region
    previousInitialContentRef,  \* useRef: the content last committed
    initialContent,             \* the initialContent prop
    uploadMode,                 \* "callback" | "endpoint" | "none"
    readOnly,                   \* the readOnly prop
    readers,                    \* FileReaders whose onload has not fired
    nextImage,                  \* image identifiers generated so far
    flows,                      \* runs of handleSave / handleExport / Upload Now
    inflight,                   \* upload calls awaiting their outcome
    uploadCalls,                \* id -> uploader invocations so far
    isUploading,                \* useState of the component
    timers,                     \* deferred resyncs not yet run
    now,                        \* the clock as new Date() last read it
    notifier,                   \* the onChange prop and its debounced call
    lastOp                      \* the handler that ran last and what it
                                \* showed, returned or called back

vars ==
    <<editorState, dom, previousInitialContentRef, initialContent, uploadMode, readOnly, now,
      readers, nextImage, flows, inflight, uploadCalls, isUploading, timers,
      notifier, lastOp>>

InitialContents == {<<>>, <<"a", " ", "&">>}

LongTitle == [i \in 1..(MaxTitleLength + 1) |-> "x"]

\* what the user leaves in the title input: nothing, or more than the schema
\* allows (the state starts with the default title)
Titles == {<<>>, LongTitle}

\* the titles typed in the runs of the whole editor
EditorTitles == {<<>>}

ContentChars == {"a", " ", "\n"}

\* the strings over ContentChars of length at most n
RECURSIVE Strings(_)
Strings(n) ==
    IF n = 0 THEN {<<>>}
    ELSE LET shorter == Strings(n - 1)
         IN shorter \cup {Append(s, c) : s \in shorter, c \in ContentChars}

Contents == Strings(MaxLen)

\* the markup "<p>Hello world</p>", one character per element
HelloWorld ==
    <<"<", "p", ">", "H", "e", "l", "l", "o", " ", "w", "o", "r", "l", "d",
      "<", "/", "p", ">">>

TypedChars == {"a", " "}

FlowIds == 1..MaxFlows

\* what a handler created in one render keeps of that render's editorState
\* and reads after its await: title, content and the two counts
Closure(st) ==
    [title |-> st.title, content |-> st.content, wordCount |-> st.wordCount,
     characterCount |-> st.characterCount]

IdleFlow ==
    [kind |-> "none", pc |-> "idle", pending |-> <<>>, idx |-> 0,
     closure |-> [title |-> DefaultTitle, content |-> <<>>, wordCount |-> 0,
                  characterCount |-> 0]]

\* what a handler leaves behind besides the state: the alert it raised, whether
\* it threw (or its upload failed), the document it returned, the callback
\* (onSave / onExport) it invoked with its content and document arguments
Op(name) ==
    [op |-> name, alert |-> "", threw |-> FALSE, called |-> "",
     selection |-> "", result |-> NoValidation]

\* ------------------------------------------------------ onChange, debounce
\* the arguments of onChange(content, html, title) that tell calls apart
Args(st) == [content |-> st.content, title |-> st.title]

NoArgs == [content |-> <<>>, title |-> <<>>]

\* onChange(args) runs: flip tells one invocation from the next, delivered
\* keeps its arguments, dirty falls when they are those of the state st
Invoke(n, args, st) ==
    [n EXCEPT !.flip = 1 - @, !.delivered = args, !.pending = FALSE,
              !.dirty = IF args = Args(st) THEN FALSE ELSE @]

\* lodash debounce, trailing edge: a call keeps its arguments and restarts
\* the wait
Debounced(n, args) == [n EXCEPT !.pending = TRUE, !.args = args, !.wait = 0]

\* debounced.flush(): a pending call is invoked at once
Flush(n, st) ==
    IF n.mode = "debounced" /\ n.pending THEN Invoke(n, n.args, st) ELSE n

\* A plausible slip: the notification is skipped for an empty title.
ContentChangeNotifiedByTitle(n, rerun, prev, st) ==
    LET m == IF Args(st) # Args(prev)
             THEN [n EXCEPT !.dirty = TRUE, !.since = 0] ELSE n
    IN IF n.mode = "none" THEN n
       ELSE IF ~rerun THEN m
       ELSE IF n.mode = "plain" THEN Invoke(m, Args(st), st)
       ELSE IF st.title = <<>> THEN m
       ELSE IF n.mode = "debounced" THEN Debounced(m, Args(st))
       ELSE Invoke(m, Args(st), st)

\* the effect that notifies the parent, run after a render in which the
\* state object changed (rerun): TextEditor.tsx calls onChange; the component
\* with debounce returns early on an empty content, else calls the debounced
\* onChange (debounceDelay > 0) or onChange itself; when content or title
\* changed, dirty rises and since, the time since the last such change,
\* restarts
ContentChangeNotified(n, rerun, prev, st) ==
    LET m == IF Args(st) # Args(prev)
             THEN [n EXCEPT !.dirty = TRUE, !.since = 0] ELSE n
    IN IF n.mode = "none" THEN n
       ELSE IF ~rerun THEN m
       ELSE IF n.mode = "plain" THEN Invoke(m, Args(st), st)
       ELSE IF st.content = <<>> THEN m
       ELSE IF n.mode = "debounced" THEN Debounced(m, Args(st))
       ELSE Invoke(m, Args(st), st)

ContentChangeNotify(rerun) ==
    notifier' = ContentChangeNotified(notifier, rerun, editorState, editorState')

\* the notifier after the mount, whose renders run the effect on the initial
\* state
MountNotifier(mode, content) ==
    ContentChangeNotified(
        [mode |-> mode, pending |-> FALSE, args |-> NoArgs, wait |-> 0,
         since |-> 0, flip |-> 0, delivered |-> NoArgs, dirty |-> FALSE],
        TRUE, InitialEditorState(content), InitialEditorState(content))

\* time passes while a debounced call waits
Tick ==
    /\ notifier.mode = "debounced" /\ notifier.pending
    /\ notifier.wait < DebounceDelay
    /\ notifier' = [notifier EXCEPT
                        !.wait = @ + 1,
                        !.since = IF @ < DebounceDelay THEN @ + 1 ELSE @]
    /\ UNCHANGED <<editorState, dom, previousInitialContentRef, initialContent,
                   uploadMode, readOnly, now, readers, nextImage, flows, inflight,
                   uploadCalls, isUploading, timers, lastOp>>

\* the debounce timer fires debounceDelay after the last call: onChange runs
\* with the arguments of that call
DebounceFire ==
    /\ notifier.mode = "debounced" /\ notifier.pending
    /\ notifier.wait = DebounceDelay
    /\ notifier' = Invoke(notifier, notifier.args, editorState)
    /\ lastOp' = Op("onChange")
    /\ UNCHANGED <<editorState, dom, previousInitialContentRef, initialContent,
                   uploadMode, readOnly, now, readers, nextImage, flows, inflight,
                   uploadCalls, isUploading, timers>>

InitEditor ==
    /\ initialContent \in InitialContents
    /\ uploadMode \in {"callback", "endpoint", "none"}
    /\ editorState = InitialEditorState(initialContent)
    /\ dom = ParseHTML(initialContent)
    /\ previousInitialContentRef = initialContent
    /\ readers = {}
    /\ nextImage = 0
    /\ flows = [f \in FlowIds |-> IdleFlow]
    /\ inflight = {}
    /\ uploadCalls = [i \in ImageIdSet |-> 0]
    /\ isUploading = FALSE
    /\ timers = 0
    /\ now = 0
    /\ lastOp = Op("mount")

\* the editor mounted without an onChange prop
Init ==
    /\ InitEditor
    /\ readOnly = FALSE
    /\ notifier = MountNotifier("none", initialContent)

\* the editor mounted with an onChange prop: TextEditor.tsx ("plain"), the
\* component with debounceDelay = 0 ("immediate") or > 0 ("debounced")
InitNotify ==
    /\ InitEditor
    /\ readOnly = FALSE
    /\ \E mode \in {"plain", "immediate", "debounced"} :
           notifier = MountNotifier(mode, initialContent)

\* the editor mounted editable or read-only
InitReadOnly ==
    /\ InitEditor
    /\ readOnly \in BOOLEAN
    /\ notifier = MountNotifier("none", initialContent)

\* --------------------------------------------------- typing, title, content
\* onInput after the user typed character c at the end of the region:
\* handleContentChange(e.currentTarget.innerHTML)
Input(c) ==
    /\ ~readOnly
    /\ Len(dom) < MaxNodes
    /\ dom' = Append(dom, TextNode(c))
    /\ editorState' = UpdateContentState(editorState, innerHTML(dom'))
    /\ previousInitialContentRef' = innerHTML(dom')
    /\ lastOp' = Op("input")
    /\ UNCHANGED <<initialContent, uploadMode, readOnly, now, readers, nextImage, flows,
                   inflight, uploadCalls, isUploading, timers>>
    /\ ContentChangeNotify(TRUE)

\* updateContent(content) called with an arbitrary string (the hook exposes
\* it; the region is not written)
UpdateContent(content) ==
    /\ editorState' = UpdateContentState(editorState, content)
    /\ previousInitialContentRef' = content
    /\ lastOp' = Op("updateContent")
    /\ UNCHANGED <<dom, initialContent, uploadMode, readOnly, now, readers, nextImage, flows,
                   inflight, uploadCalls, isUploading, timers>>
    /\ ContentChangeNotify(TRUE)

\* onInput after the user deleted node i (a character or an image); the runs
\* delete the last node, as Backspace at the end of the region does
DeleteNode(i) ==
    /\ ~readOnly
    /\ i \in 1..Len(dom)
    /\ dom' = SubSeq(dom, 1, i - 1) \o SubSeq(dom, i + 1, Len(dom))
    /\ editorState' = UpdateContentState(editorState, innerHTML(dom'))
    /\ previousInitialContentRef' = innerHTML(dom')
    /\ lastOp' = Op("delete")
    /\ UNCHANGED <<initialContent, uploadMode, readOnly, now, readers, nextImage, flows,
                   inflight, uploadCalls, isUploading, timers>>
    /\ ContentChangeNotify(TRUE)

\* the title input's onChange; the input carries readOnly={readOnly}
UpdateTitle(t) ==
    /\ ~readOnly
    /\ editorState' = UpdateTitleState(editorState, t)
    /\ lastOp' = Op("updateTitle")
    /\ UNCHANGED <<dom, previousInitialContentRef, initialContent, uploadMode, readOnly, now,
                   readers, nextImage, flows, inflight, uploadCalls,
                   isUploading, timers>>
    /\ ContentChangeNotify(TRUE)

\* the parent passes a new initialContent prop; the effect on [initialContent]
\* replaces region and state when it differs from the content last committed
SetInitialContent(c) ==
    /\ c # initialContent
    /\ initialContent' = c
    /\ IF c # previousInitialContentRef
       THEN /\ dom' = ParseHTML(c)
            /\ previousInitialContentRef' = c
            /\ editorState' = InitialContentState(editorState, c)
       ELSE UNCHANGED <<dom, previousInitialContentRef, editorState>>
    /\ lastOp' = Op("initialContent")
    /\ UNCHANGED <<uploadMode, readOnly, now, readers, nextImage, flows, inflight,
                   uploadCalls, isUploading, timers>>
    /\ ContentChangeNotify(c # previousInitialContentRef)

\* clearEditor (the toolbar's Clear, Ctrl+Shift+K, the ref API's clear)
ClearEditor ==
    /\ editorState' = ClearedState(editorState)
    /\ dom' = <<>>
    /\ previousInitialContentRef' = <<>>
    /\ lastOp' = Op("clearEditor")
    /\ UNCHANGED <<initialContent, uploadMode, readOnly, now, readers, nextImage, flows,
                   inflight, uploadCalls, isUploading, timers>>
    /\ ContentChangeNotify(TRUE)

\* what window.getSelection() holds when a command is issued: no range, a
\* range outside the editable region, a range inside it
Selections == {"none", "outside", "inside"}

\* A plausible slip: the saved range is not put back.
CommandSelectionUnrestored(selection, focusMoves) ==
    LET focused == IF focusMoves /\ selection # "inside" THEN "caret"
                   ELSE selection
    IN IF focused = "none" THEN "end" ELSE focused

\* the selection at the moment executeCommand invokes the host command:
\* saveSelection keeps a range that lies inside the editor ("saved", put back
\* by restoreSavedSelection); otherwise, after focus(), which the host may
\* answer by placing a caret in the editor (focusMoves, "caret") or not, a
\* range collapsed at the end ("end") is made only when no range exists
CommandSelection(selection, focusMoves) ==
    LET savedRange == selection = "inside"
        focused == IF focusMoves THEN "caret" ELSE selection
    IN IF savedRange THEN "saved"
       ELSE IF focused = "none" THEN "end" ELSE focused

\* executeCommand: the selection is prepared, then the host command changes
\* the region or not, returns false (a warning is logged, kept in alert), or
\* throws; unless it throws, a resync is deferred with setTimeout(0)
ExecuteCommandAt(outcome, selection, focusMoves) ==
    /\ outcome \in {"changed", "unchanged", "failed", "threw"}
    /\ IF outcome = "threw"
       THEN UNCHANGED <<dom, timers>>
       ELSE /\ timers < MaxTimers
            /\ timers' = timers + 1
            /\ IF outcome = "changed"
               THEN /\ Len(dom) < MaxNodes
                    /\ dom' = Append(dom, TextNode("a"))
               ELSE UNCHANGED dom
    /\ lastOp' = [Op("executeCommand") EXCEPT
                      !.threw = (outcome = "threw"),
                      !.selection = CommandSelection(selection, focusMoves),
                      !.alert = IF outcome = "failed"
                                THEN "Command failed" ELSE ""]
    /\ UNCHANGED <<notifier, editorState, previousInitialContentRef, initialContent,
                   uploadMode, readOnly, now, readers, nextImage, flows, inflight,
                   uploadCalls, isUploading>>

\* executeCommand issued with whatever selection the window holds
ExecuteCommand(outcome) ==
    \E selection \in Selections, focusMoves \in BOOLEAN :
        ExecuteCommandAt(outcome, selection, focusMoves)

\* A plausible slip: the deferred update writes back the state's content
\* and does not read the region.
TimerFireStale ==
    /\ timers > 0
    /\ timers' = timers - 1
    /\ editorState' = UpdateContentState(editorState, editorState.content)
    /\ previousInitialContentRef' = editorState.content
    /\ lastOp' = Op("timer")
    /\ UNCHANGED <<dom, initialContent, uploadMode, readOnly, now, readers, nextImage, flows,
                   inflight, uploadCalls, isUploading>>
    /\ ContentChangeNotify(TRUE)

\* the deferred resync: updateContent(editorRef.current.innerHTML)
TimerFire ==
    /\ timers > 0
    /\ timers' = timers - 1
    /\ editorState' = UpdateContentState(editorState, innerHTML(dom))
    /\ previousInitialContentRef' = innerHTML(dom)
    /\ lastOp' = Op("timer")
    /\ UNCHANGED <<dom, initialContent, uploadMode, readOnly, now, readers, nextImage, flows,
                   inflight, uploadCalls, isUploading>>
    /\ ContentChangeNotify(TRUE)

\* the ref API's insertText(text), for a one-character text: the host's
\* insertText command, then updateContent(editorRef.current.innerHTML)
InsertText(c) ==
    /\ Len(dom) < MaxNodes
    /\ dom' = Append(dom, TextNode(c))
    /\ editorState' = UpdateContentState(editorState, innerHTML(dom'))
    /\ previousInitialContentRef' = innerHTML(dom')
    /\ lastOp' = Op("insertText")
    /\ UNCHANGED <<initialContent, uploadMode, readOnly, now, readers, nextImage, flows,
                   inflight, uploadCalls, isUploading, timers>>
    /\ ContentChangeNotify(TRUE)

\* the ref API's insertHTML(html), for an html without markup: the host's
\* insertHTML command, then updateContent(editorRef.current.innerHTML)
InsertHTML(html) ==
    /\ Len(dom) < MaxNodes
    /\ dom' = dom \o ParseHTML(html)
    /\ editorState' = UpdateContentState(editorState, innerHTML(dom'))
    /\ previousInitialContentRef' = innerHTML(dom')
    /\ lastOp' = Op("insertHTML")
    /\ UNCHANGED <<initialContent, uploadMode, readOnly, now, readers, nextImage, flows,
                   inflight, uploadCalls, isUploading, timers>>
    /\ ContentChangeNotify(TRUE)

\* the options exportToHTML accepts: the component passes the default
\* {includeStyles: true, includeMeta: true} and, for onChange, {false, false};
\* a user of the hook passes any pair
ExportOptions == BOOLEAN \X BOOLEAN

\* exportToHTML(options) called on the current render (the ref API's getHTML,
\* the onChange notification): it returns a document or throws
ExportToHTML(includeStyles, includeMeta) ==
    /\ lastOp' = [Op("exportToHTML") EXCEPT
                      !.threw = exportToHTML(editorState, dom, includeStyles,
                                             includeMeta, now).threw]
    /\ UNCHANGED <<notifier, editorState, dom, previousInitialContentRef, initialContent,
                   uploadMode, readOnly, now, readers, nextImage, flows, inflight, uploadCalls,
                   isUploading, timers>>

\* getValidationResult() called on the current render, as a user of the hook
\* calls it; time is what new Date() reads at the call, never less than what
\* it read before
GetValidationResult(time) ==
    /\ time \in now..MaxClock
    /\ now' = time
    /\ lastOp' = [Op("getValidationResult") EXCEPT
                      !.result = getValidationResult(editorState, dom, time)]
    /\ UNCHANGED <<notifier, editorState, dom, previousInitialContentRef, initialContent,
                   uploadMode, readOnly, readers, nextImage, flows, inflight, uploadCalls,
                   isUploading, timers>>

\* ----------------------------------------------------------- image pipeline
\* insertImage(file, atCursor): a rejected file raises an alert and nothing
\* else; an accepted one gets an identifier and is handed to a FileReader
InsertImage(file, atCursor, limit) ==
    /\ IF ~validateImageFile(file).valid
       THEN UNCHANGED <<readers, nextImage>>
       ELSE /\ nextImage < limit
            /\ nextImage' = nextImage + 1
            /\ readers' = readers \cup
                   {[id |-> ImageIds[nextImage + 1], file |-> file,
                     atCursor |-> atCursor]}
    /\ lastOp' = [Op("insertImage") EXCEPT
                      !.alert = validateImageFile(file).error]
    /\ UNCHANGED <<notifier, editorState, dom, previousInitialContentRef, initialContent,
                   uploadMode, readOnly, now, flows, inflight, uploadCalls, isUploading,
                   timers>>

\* the hidden file input's onChange: it returns at once when readOnly, else
\* insertImage(file) at the cursor
HandleFileSelect(file, limit) ==
    IF readOnly
    THEN /\ lastOp' = Op("fileSelect")
         /\ UNCHANGED <<notifier, editorState, dom, previousInitialContentRef,
                        initialContent, uploadMode, readOnly, now, readers,
                        nextImage, flows, inflight, uploadCalls, isUploading,
                        timers>>
    ELSE InsertImage(file, TRUE, limit)

\* onPaste: a clipboard item whose type contains 'image' goes to insertImage;
\* any other paste is left to the browser and a resync is deferred
HandlePaste(file, limit) ==
    IF IsImageType(file.type)
    THEN InsertImage(file, TRUE, limit)
    ELSE /\ timers < MaxTimers
         /\ timers' = timers + 1
         /\ lastOp' = Op("pasteText")
         /\ UNCHANGED <<notifier, editorState, dom, previousInitialContentRef,
                        initialContent, uploadMode, readOnly, now, readers, nextImage, flows,
                        inflight, uploadCalls, isUploading>>

\* onDrop: a dropped file whose type starts with 'image/' goes to
\* insertImage(file, false); with no image among the files and the selection
\* inside the editor a resync is deferred
HandleDrop(file, selectionInside, limit) ==
    IF IsImageType(file.type)
    THEN InsertImage(file, FALSE, limit)
    ELSE /\ IF selectionInside
            THEN timers < MaxTimers /\ timers' = timers + 1
            ELSE UNCHANGED timers
         /\ lastOp' = Op("dropText")
         /\ UNCHANGED <<notifier, editorState, dom, previousInitialContentRef,
                        initialContent, uploadMode, readOnly, now, readers, nextImage, flows,
                        inflight, uploadCalls, isUploading>>

\* reader.onload: the img element is inserted at the saved selection (sel is
\* its position, -1 when the selection is not inside the editor) or appended,
\* the content is resynced, and with an uploader configured the record is
\* appended to pendingImages
ReaderOnload(r, sel) ==
    LET img == ImgNode(r.id, DataUrl(r.id))
        nodes == IF r.atCursor /\ sel >= 0
                 THEN InsertAt(dom, sel, img)
                 ELSE Append(dom, img)
        st == UpdateContentState(editorState, innerHTML(nodes))
    IN /\ r \in readers
       /\ sel \in {-1, 0}
       /\ readers' = readers \ {r}
       /\ dom' = nodes
       /\ previousInitialContentRef' = innerHTML(nodes)
       /\ editorState' = IF uploadMode # "none"
                         THEN AddPending(st, r.id, r.file, DataUrl(r.id))
                         ELSE st
       /\ lastOp' = Op("readerOnload")
       /\ UNCHANGED <<initialContent, uploadMode, readOnly, now, nextImage, flows, inflight,
                      uploadCalls, isUploading, timers>>
       /\ ContentChangeNotify(TRUE)

\* ------------------------------------------------- upload, save and export
\* editorState.pendingImages.filter(img => img.status === 'pending'), by id
RECURSIVE PendingIds(_)
PendingIds(images) ==
    IF images = <<>> THEN <<>>
    ELSE (IF Head(images).status = "pending" THEN <<Head(images).id>> ELSE <<>>)
         \o PendingIds(Tail(images))

\* A plausible slip: the uploads of the batch fanned out at once.
UploadsStartedAll(f, pending, idx) ==
    {[flow |-> f, id |-> pending[i]] : i \in idx..Len(pending)}

\* the upload calls one pass of the for loop starts before it suspends at its
\* await: the call for the image at position idx
UploadsStarted(f, pending, idx) == {[flow |-> f, id |-> pending[idx]]}

\* the records of the started uploads marked uploading
MarkUploading(st, started) ==
    [st EXCEPT !.pendingImages =
        [i \in 1..Len(st.pendingImages) |->
            IF \E c \in started : c.id = st.pendingImages[i].id
            THEN [st.pendingImages[i] EXCEPT !.status = "uploading"]
            ELSE st.pendingImages[i]]]

CountCalls(calls, started) ==
    [i \in DOMAIN calls |->
        IF \E c \in started : c.id = i THEN calls[i] + 1 ELSE calls[i]]

\* what the uploader can answer: the callback resolves with a URL or rejects;
\* the endpoint answers OK with or without a URL field, not OK, or fails
Outcomes(mode) ==
    IF mode = "callback" THEN {"url", "reject"}
    ELSE {"url", "nourl", "notok", "reject"}

\* A plausible slip: a failed upload ends the handler that awaited the batch.
CompletedAborting(op, kind, st, nodes) ==
    IF op.threw THEN op
    ELSE [op EXCEPT !.called = IF kind = "save" THEN "onSave"
                               ELSE IF kind = "export" THEN "onExport" ELSE ""]

\* the code that follows the awaited uploadPendingImages(): handleSave
\* validates and, on success, calls onSave(editorState.content,
\* exportToHTML()); handleExport calls onExport(exportToHTML()); st is the
\* state of the render the handler closed over, nodes the live region
Completed(op, kind, st, nodes) ==
    LET validation == getValidationResult(st, nodes, now)
        html == exportToHTML(st, nodes, TRUE, TRUE, now)
        called == CASE kind = "save" -> validation.success /\ ~html.threw
                    [] kind = "export" -> ~html.threw
                    [] OTHER -> FALSE
    IN [op EXCEPT !.called = IF ~called THEN ""
                             ELSE IF kind = "save" THEN "onSave" ELSE "onExport",
                  !.alert = IF kind = "export" /\ html.threw
                            THEN "Export failed" ELSE ""]

\* the arguments of onSave?.(editorState.content, exportToHTML()): the
\* content of the state st the handler closed over, and the document, which
\* exportToHTML builds from st and the live region
OnSaveArgs(st, nodes) ==
    [content |-> st.content,
     html |-> exportToHTML(st, nodes, TRUE, TRUE, now).doc]

\* the first free slot among those of the handlers that may run at once
FirstIdle(limit) ==
    CHOOSE f \in 1..limit : flows[f].pc = "idle" /\
        \A g \in 1..limit : flows[g].pc = "idle" => f <= g

\* handleSave, handleExport (toolbar or Ctrl+S / Ctrl+E) and the Upload Now
\* button, up to the first await or, when nothing is awaited, to the end;
\* handleSave and handleExport begin by flushing the debounced onChange
Trigger(kind, limit) ==
    LET f == FirstIdle(limit)
        ids == PendingIds(editorState.pendingImages)
        uploads == /\ kind = "button" \/ Len(editorState.pendingImages) > 0
                   /\ uploadMode # "none"
                   /\ ids # <<>>
        started == UploadsStarted(f, ids, 1)
        flushed == IF kind = "button" THEN notifier
                   ELSE Flush(notifier, editorState)
    IN /\ \E g \in 1..limit : flows[g].pc = "idle"
       /\ kind = "button" =>
              Len(editorState.pendingImages) > 0 /\ ~isUploading
       /\ IF uploads
          THEN /\ editorState' = MarkUploading(editorState, started)
               /\ inflight' = inflight \cup started
               /\ uploadCalls' = CountCalls(uploadCalls, started)
               /\ flows' = [flows EXCEPT ![f] =
                      [kind |-> kind, pc |-> "await", pending |-> ids,
                       idx |-> 1, closure |-> Closure(editorState)]]
               /\ isUploading' = IF kind = "button" THEN isUploading ELSE TRUE
               /\ lastOp' = Op(kind)
               /\ notifier' = ContentChangeNotified(flushed, TRUE, editorState,
                                                    editorState')
          ELSE /\ lastOp' = Completed(Op(kind), kind,
                                      editorState, dom)
               /\ notifier' = flushed
               /\ UNCHANGED <<editorState, flows, inflight, uploadCalls,
                              isUploading>>
       /\ UNCHANGED <<dom, previousInitialContentRef, initialContent,
                      uploadMode, readOnly, now, readers, nextImage, timers>>

\* the awaited upload of flow f settles: the img element and the record are
\* updated, then the loop starts the next upload or, after the last image,
\* resyncs the content and the handler that awaited the batch runs on
Settle(f, outcome) ==
    LET flow == flows[f]
        id == flow.pending[flow.idx]
        success == outcome \in {"url", "nourl"}
        url == IF outcome = "url" THEN UploadedUrl(id) ELSE UndefinedUrl
        k == ImgIndex(dom, id)
        nodes == IF k = 0 THEN dom
                 ELSE IF success
                      THEN [dom EXCEPT ![k].src = url,
                                       ![k].cls = ClassListAdd(@, "uploaded")]
                      ELSE [dom EXCEPT ![k].cls = ClassListAdd(@, "failed")]
        st == SetStatus(editorState, id, IF success THEN "uploaded" ELSE "failed")
        started == UploadsStarted(f, flow.pending, flow.idx + 1)
        op == [Op("settle") EXCEPT !.threw = ~success]
    IN /\ flow.pc = "await"
       /\ [flow |-> f, id |-> id] \in inflight
       /\ outcome \in Outcomes(uploadMode)
       /\ dom' = nodes
       /\ IF flow.idx < Len(flow.pending)
          THEN /\ editorState' = MarkUploading(st, started)
               /\ inflight' = (inflight \ {[flow |-> f, id |-> id]}) \cup started
               /\ uploadCalls' = CountCalls(uploadCalls, started)
               /\ flows' = [flows EXCEPT ![f].idx = flow.idx + 1]
               /\ lastOp' = op
               /\ UNCHANGED <<previousInitialContentRef, isUploading>>
          ELSE /\ editorState' = UpdateContentState(st, innerHTML(nodes))
               /\ previousInitialContentRef' = innerHTML(nodes)
               /\ inflight' = inflight \ {[flow |-> f, id |-> id]}
               /\ flows' = [flows EXCEPT ![f] = IdleFlow]
               /\ lastOp' = Completed([op EXCEPT !.op = "settleLast"],
                                      flow.kind, flow.closure, nodes)
               /\ isUploading' = IF flow.kind = "button" THEN isUploading ELSE FALSE
               /\ UNCHANGED uploadCalls
       /\ UNCHANGED <<initialContent, uploadMode, readOnly, now, readers, nextImage, timers>>
       /\ ContentChangeNotify(TRUE)

\* the whole editor, with EditorImages images and EditorFlows handlers;
\* commands are issued with the selection inside the editor
Next ==
    \/ \E c \in TypedChars : Input(c)
    \/ DeleteNode(Len(dom))
    \/ \E t \in EditorTitles : UpdateTitle(t)
    \/ \E c \in InitialContents : SetInitialContent(c)
    \/ ClearEditor
    \/ \E o \in {"changed", "unchanged", "failed", "threw"} :
           ExecuteCommandAt(o, "inside", FALSE)
    \/ TimerFire
    \/ \E file \in Files : HandleFileSelect(file, EditorImages)
    \/ \E file \in Files : HandlePaste(file, EditorImages)
    \/ \E file \in Files, inside \in BOOLEAN : HandleDrop(file, inside, EditorImages)
    \/ \E r \in readers, sel \in {-1, 0} : ReaderOnload(r, sel)
    \/ \E kind \in {"save", "export", "button"} : Trigger(kind, EditorFlows)
    \/ \E f \in FlowIds, o \in {"url", "nourl", "notok", "reject"} : Settle(f, o)

Spec == Init /\ [][Next]_vars

\* the image pipeline with MaxImages images and MaxFlows handlers in flight at
\* once, and clearEditor, which empties the list the handlers work on
NextUpload ==
    \/ \E file \in Files : HandleFileSelect(file, MaxImages)
    \/ \E r \in readers, sel \in {-1, 0} : ReaderOnload(r, sel)
    \/ \E kind \in {"save", "export", "button"} : Trigger(kind, MaxFlows)
    \/ \E f \in FlowIds, o \in {"url", "nourl", "notok", "reject"} : Settle(f, o)
    \/ ClearEditor

UploadSpec == Init /\ [][NextUpload]_vars

\* the runs of uploadPendingImages over images read from one accepted file
\* and appended to the region, started by save or the Upload Now button
\* while other runs await, and clearEditor
AcceptedFile == [type |-> "image/png", size |-> maxImageSize]

NextUploadRun ==
    \/ HandleFileSelect(AcceptedFile, MaxImages)
    \/ \E r \in readers : ReaderOnload(r, -1)
    \/ \E kind \in {"save", "button"} : Trigger(kind, MaxFlows)
    \/ \E f \in FlowIds, o \in {"url", "reject"} : Settle(f, o)
    \/ ClearEditor

\* every upload call eventually resolves or rejects: weak fairness of the
\* settling of each run, WF_vars(\E o : Settle(f, o)), with the enabling
\* condition of Settle written out (a run that awaits has its upload in
\* flight)
UploadFairSpec ==
    /\ Init
    /\ [][NextUploadRun]_vars
    /\ \A f \in FlowIds :
           \/ []<>(flows[f].pc # "await")
           \/ []<><<\E o \in {"url", "reject"} : Settle(f, o)>>_vars

\* the document (text and title, no images) and its export
NextExport ==
    \/ \E c \in TypedChars : Input(c)
    \/ DeleteNode(Len(dom))
    \/ \E t \in Titles : UpdateTitle(t)
    \/ \E c \in InitialContents : SetInitialContent(c)
    \/ ClearEditor
    \/ \E o \in ExportOptions : ExportToHTML(o[1], o[2])

ExportSpec == Init /\ [][NextExport]_vars

\* the command executor and the ref API's insertions, on a document of text
NextCommand ==
    \/ \E c \in TypedChars : Input(c)
    \/ DeleteNode(Len(dom))
    \/ \E c \in InitialContents : SetInitialContent(c)
    \/ ClearEditor
    \/ \E o \in {"changed", "unchanged", "failed", "threw"} : ExecuteCommand(o)
    \/ TimerFire
    \/ \E c \in TypedChars : InsertText(c)
    \/ \E html \in InitialContents : InsertHTML(html)

CommandSpec == Init /\ [][NextCommand]_vars

\* the document and the validation result a caller of the hook obtains
NextValidation ==
    \/ \E c \in TypedChars : Input(c)
    \/ DeleteNode(Len(dom))
    \/ \E t \in Titles : UpdateTitle(t)
    \/ \E c \in InitialContents : SetInitialContent(c)
    \/ ClearEditor
    \/ \E time \in 0..MaxClock : GetValidationResult(time)

ValidationSpec == Init /\ [][NextValidation]_vars

\* the notifications to the parent: the document of text and title, save
\* and export (which flush), the passing of time and the debounce timer
NextNotify ==
    \/ \E c \in TypedChars : Input(c)
    \/ DeleteNode(Len(dom))
    \/ \E t \in Titles : UpdateTitle(t)
    \/ ClearEditor
    \/ \E kind \in {"save", "export"} : Trigger(kind, EditorFlows)
    \/ Tick
    \/ DebounceFire

NotifySpec == InitNotify /\ [][NextNotify]_vars

\* time passes and a timer that is due fires
NotifyFairSpec == NotifySpec /\ WF_vars(Tick) /\ WF_vars(DebounceFire)

\* the editor editable or read-only: typing and the title, which the region
\* and the title input refuse when read-only, and what the toolbar, the
\* shortcuts and the file input still reach
NextReadOnly ==
    \/ \E c \in TypedChars : Input(c)
    \/ DeleteNode(Len(dom))
    \/ \E t \in EditorTitles : UpdateTitle(t)
    \/ ClearEditor
    \/ \E o \in {"changed", "unchanged", "failed", "threw"} :
           ExecuteCommandAt(o, "inside", FALSE)
    \/ TimerFire
    \/ \E file \in Files : HandleFileSelect(file, EditorImages)
    \/ \E r \in readers, sel \in {-1, 0} : ReaderOnload(r, sel)
    \/ \E kind \in {"save", "export"} : Trigger(kind, EditorFlows)
    \/ \E f \in FlowIds, o \in {"url", "nourl", "notok", "reject"} : Settle(f, o)

ReadOnlySpec == InitReadOnly /\ [][NextReadOnly]_vars

\* updateContent as a function of its argument
NextCount == \E c \in Contents \cup {HelloWorld} : UpdateContent(c)

CountSpec == Init /\ [][NextCount]_vars

\* -------------------------------------------------------------- properties
\* the maximal runs of non-whitespace characters of s, counted by their
\* first characters
TokenCount(s) ==
    Cardinality({i \in 1..Len(s) : ~IsWs(s[i]) /\ (i = 1 \/ IsWs(s[i - 1]))})

\* the status of the record of image id, "absent" when the list has none
StatusOf(st, id) ==
    LET hits == {i \in 1..Len(st.pendingImages) : st.pendingImages[i].id = id}
    IN IF hits = {} THEN "absent"
       ELSE st.pendingImages[CHOOSE i \in hits : TRUE].status

\* a file of an allowed type and of at most the maximum size
Acceptable(file) ==
    file.type \in allowedImageTypes /\ file.size <= maxImageSize

\* the upload calls of flow f that await their outcome
InFlightOf(f) == {c \in inflight : c.flow = f}

\* C1: after updateContent(C) the content is C (the string the call also
\* leaves in previousInitialContentRef), characterCount is the length of C and
\* wordCount is the number of whitespace-delimited non-empty tokens of C, 0
\* for an empty or all-whitespace C.
C1_UpdateContentCounts ==
    lastOp.op = "updateContent" =>
        /\ editorState.content = previousInitialContentRef
        /\ editorState.characterCount = Len(editorState.content)
        /\ editorState.wordCount = TokenCount(editorState.content)

\* updateContent was called with a string that starts with whitespace and
\* holds two tokens
C1_Witness ==
    /\ lastOp.op = "updateContent"
    /\ editorState.content = <<" ", "a", "\n", "a">>
    /\ editorState.wordCount = 2
    /\ editorState.characterCount = 4

\* C2: in every reachable state wordCount and characterCount are the counts
\* of the state's current content.
C2_CountsMatchContent ==
    /\ editorState.wordCount = TokenCount(editorState.content)
    /\ editorState.characterCount = Len(editorState.content)

\* a batch of uploads has ended and resynced a content that holds the markup
\* of an image
C2_Witness ==
    /\ lastOp.op = "settleLast"
    /\ editorState.wordCount > 1
    /\ \E i \in 1..Len(dom) : dom[i].kind = "img"

\* C3: the status of an image record only moves pending -> uploading ->
\* uploaded | failed: no step skips a stage or moves back, and an image is
\* handed to the uploader at most once.
C3_StatusOnlyMovesForward ==
    [][\A id \in ImageIdSet :
          LET a == StatusOf(editorState, id)
              b == StatusOf(editorState', id)
          IN /\ \/ a = b
                \/ b = "absent"
                \/ a = "absent" /\ b = "pending"
                \/ a = "pending" /\ b = "uploading"
                \/ a = "uploading" /\ b \in {"uploaded", "failed"}
             /\ uploadCalls'[id] <= 1]_vars

\* C4: insertImage with a file of a type not allowed or larger than the
\* maximum raises its message and changes nothing: no identifier, no reader,
\* no change of the state or the region, and no such file is ever read or
\* listed in pendingImages.
C4_RejectedFileChangesNothing ==
    [][/\ \A file \in Files, atCursor \in BOOLEAN :
             ~Acceptable(file) /\ InsertImage(file, atCursor, EditorImages) =>
                 /\ UNCHANGED <<editorState, dom, readers, nextImage>>
                 /\ lastOp'.alert # ""
       /\ \A r \in readers' : Acceptable(r.file)
       /\ \A i \in 1..Len(editorState'.pendingImages) :
             Acceptable(editorState'.pendingImages[i].file)]_vars

\* a file that is too large was rejected while an accepted image was listed
C4_Witness ==
    /\ lastOp.op = "insertImage"
    /\ lastOp.alert = "File too large"
    /\ Len(editorState.pendingImages) = 1

\* C5: when an upload of a batch fails, that image's record is marked failed
\* and no other record is; if the batch has a later image, its upload is
\* started in the same step.
C5_FailureMarksOnlyItsRecord ==
    [][\A f \in FlowIds, o \in {"notok", "reject"} :
          Settle(f, o) =>
              LET id == flows[f].pending[flows[f].idx]
                  last == flows[f].idx = Len(flows[f].pending)
                  next == flows[f].pending[flows[f].idx + 1]
              IN /\ StatusOf(editorState, id) # "absent" =>
                        StatusOf(editorState', id) = "failed"
                 /\ \A other \in ImageIdSet \ {id} :
                        StatusOf(editorState', other) = "failed" =>
                            StatusOf(editorState, other) = "failed"
                 /\ ~last => /\ [flow |-> f, id |-> next] \in inflight'
                             /\ uploadCalls'[next] = uploadCalls[next] + 1
                             /\ flows'[f].pc = "await"]_vars

\* a batch of two has ended: its first upload failed, its second succeeded
C5_Witness ==
    /\ lastOp.op = "settleLast"
    /\ ~lastOp.threw
    /\ Len(editorState.pendingImages) = 2
    /\ editorState.pendingImages[1].status = "failed"
    /\ editorState.pendingImages[2].status = "uploaded"
    /\ \A id \in ImageIdSet : uploadCalls[id] = 1

\* C6: when handleSave or handleExport has awaited its batch, whatever the
\* uploads' outcomes, it goes on: it validates and, the validation passing,
\* calls onSave, respectively onExport.
C6_HandlerCompletesAfterFailure ==
    [][\A f \in FlowIds :
          flows[f].pc = "await" /\ flows'[f].pc = "idle" /\
          flows[f].kind \in {"save", "export"} =>
              lastOp'.called =
                  IF ~getValidationResult(flows[f].closure, dom', now').success THEN ""
                  ELSE IF flows[f].kind = "save" THEN "onSave" ELSE "onExport"]_vars

\* a save whose last upload failed has called onSave
C6_Witness ==
    /\ lastOp.op = "settleLast"
    /\ lastOp.threw
    /\ lastOp.called = "onSave"

\* C7: a batch has at most one upload in flight, the one of the image at its
\* current position; the images before that position have left the status
\* pending, and the batch lists its images in the order of pendingImages.
C7_OneUploadAtATimeInOrder ==
    \A f \in FlowIds :
        /\ Cardinality(InFlightOf(f)) <= 1
        /\ flows[f].pc = "idle" => InFlightOf(f) = {}
        /\ flows[f].pc = "await" =>
               /\ InFlightOf(f) =
                      {[flow |-> f, id |-> flows[f].pending[flows[f].idx]]}
               /\ \A j \in 1..(flows[f].idx - 1) :
                      StatusOf(editorState, flows[f].pending[j]) # "pending"
               /\ \A i, j \in 1..Len(flows[f].pending) :
                      LET p == flows[f].pending
                          images == editorState.pendingImages
                      IN i < j =>
                             \A m, n \in 1..Len(images) :
                                 images[m].id = p[i] /\ images[n].id = p[j] =>
                                     m < n

\* a batch of two awaits the upload of its second image
C7_Witness ==
    \E f \in FlowIds :
        /\ flows[f].pc = "await"
        /\ Len(flows[f].pending) = 2
        /\ flows[f].idx = 2
        /\ StatusOf(editorState, flows[f].pending[2]) = "uploading"

\* C8: exportToHTML throws exactly when the title is empty, the title is
\* longer than the maximum or the content is empty, and returns a document
\* otherwise; an export that throws calls no onExport.
C8_ExportThrowsExactlyWhenInvalid ==
    lastOp.op = "exportToHTML" =>
        /\ lastOp.threw <=>
               \/ editorState.title = <<>>
               \/ Len(editorState.title) > MaxTitleLength
               \/ editorState.content = <<>>
        /\ lastOp.threw => lastOp.called = ""

\* C9: exportToHTML() called right after clear() throws.
C9_ExportAfterClearThrows ==
    [][lastOp.op = "clearEditor" /\ lastOp'.op = "exportToHTML" =>
          lastOp'.threw]_vars

\* C10: clear() leaves content '', the title 'Untitled Document', both
\* counts 0, hasUnsavedChanges false, pendingImages empty and the editable
\* region empty.
C10_ClearResetsEverything ==
    lastOp.op = "clearEditor" =>
        /\ editorState.content = <<>>
        /\ editorState.title = DefaultTitle
        /\ editorState.wordCount = 0
        /\ editorState.characterCount = 0
        /\ editorState.hasUnsavedChanges = FALSE
        /\ editorState.pendingImages = <<>>
        /\ dom = <<>>

\* the editor was cleared while a handler awaited the upload of an image,
\* started after the title had been emptied
C10_Witness ==
    /\ lastOp.op = "clearEditor"
    /\ \E f \in FlowIds :
           flows[f].pc = "await" /\ flows[f].closure.title = <<>>

\* C11: hasUnsavedChanges is true after every content or title mutation and
\* false after a save that called onSave and after a clear.
C11_DirtyFlagFollowsSaveAndClear ==
    /\ lastOp.op \in {"input", "delete", "updateContent", "updateTitle",
                      "timer", "readerOnload"} =>
           editorState.hasUnsavedChanges
    /\ lastOp.called = "onSave" \/ lastOp.op = "clearEditor" =>
           ~editorState.hasUnsavedChanges

\* the img elements of the region that carry the identifier id
ImgsOf(nodes, id) ==
    {i \in 1..Len(nodes) : nodes[i].kind = "img" /\ nodes[i].id = id}

\* the record insertImage lists for the file of reader r
PendingRecord(r) ==
    [id |-> r.id, file |-> r.file, placeholderUrl |-> DataUrl(r.id),
     status |-> "pending"]

\* C12 (as stated): every accepted file that is inserted adds exactly one
\* record with status pending, carrying the identifier of the inserted img
\* element, at the end of pendingImages, whatever uploader is configured.
C12_InsertAlwaysListsRecord ==
    [][\A r \in readers, sel \in {-1, 0} :
          ReaderOnload(r, sel) =>
              /\ Cardinality(ImgsOf(dom', r.id)) = 1
              /\ editorState'.pendingImages =
                     Append(editorState.pendingImages, PendingRecord(r))]_vars

\* C12 (amended): with an uploader configured (callback or endpoint) every
\* accepted file that is inserted adds exactly one record with status
\* pending, carrying the identifier of the inserted img element, at the end
\* of pendingImages; with no uploader configured the img element is inserted
\* and pendingImages is left as it is.
C12_InsertListsRecordIfUploader ==
    [][\A r \in readers, sel \in {-1, 0} :
          ReaderOnload(r, sel) =>
              /\ Cardinality(ImgsOf(dom', r.id)) = 1
              /\ editorState'.pendingImages =
                     IF uploadMode \in {"callback", "endpoint"}
                     THEN Append(editorState.pendingImages, PendingRecord(r))
                     ELSE editorState.pendingImages]_vars

\* a second image was inserted while the first one was uploading
C12_Witness ==
    /\ lastOp.op = "readerOnload"
    /\ Len(editorState.pendingImages) = 2
    /\ editorState.pendingImages[1].status = "uploading"
    /\ editorState.pendingImages[2].status = "pending"
    /\ Cardinality(ImgsOf(dom, editorState.pendingImages[2].id)) = 1

\* C13: a record becomes uploaded only in a step in which the uploader
\* produced a URL, and then the img element carrying the record's id, if it
\* is still in the region, has that URL as its src; an endpoint response that
\* is not OK or holds no URL never makes a record uploaded.
C13_UploadedOnlyWithUrl ==
    [][\A f \in FlowIds, o \in {"url", "nourl", "notok", "reject"} :
          Settle(f, o) =>
              LET id == flows[f].pending[flows[f].idx]
                  k == ImgIndex(dom', id)
              IN StatusOf(editorState', id) = "uploaded" /\
                 StatusOf(editorState, id) # "uploaded" =>
                     /\ o = "url"
                     /\ k # 0 => dom'[k].src = UploadedUrl(id)]_vars

\* C14: in a step in which a save or an export calls onSave or onExport,
\* every record that was pending when the handler was triggered is uploaded
\* or failed, and no record is pending or uploading.
C14_NothingPendingAtCallback ==
    [][lastOp'.called \in {"onSave", "onExport"} =>
          /\ \A f \in FlowIds :
                 flows[f].pc = "await" /\ flows'[f].pc = "idle" =>
                     \A j \in 1..Len(flows[f].pending) :
                         StatusOf(editorState', flows[f].pending[j])
                             \in {"uploaded", "failed"}
          /\ \A i \in 1..Len(editorState'.pendingImages) :
                 editorState'.pendingImages[i].status
                     \in {"uploaded", "failed"}]_vars

\* C15: a host command that fails leaves the editor state as it is, in the
\* call and in the deferred update that follows the call.
C15_FailedCommandChangesNothing ==
    [][/\ ExecuteCommand("failed") => UNCHANGED editorState
       /\ lastOp.op = "executeCommand" /\ lastOp.alert = "Command failed" /\
          lastOp'.op = "timer" => UNCHANGED editorState]_vars

C17_CaughtErrorRestoresState ==
    [][/\ \A f \in FlowIds, o \in {"notok", "reject"} :
             Settle(f, o) =>
                 LET id == flows[f].pending[flows[f].idx]
                 IN StatusOf(editorState, id) # "absent" =>
                        StatusOf(editorState', id) = "pending"
       /\ ExecuteCommand("threw") => UNCHANGED editorState]_vars

\* C17 (amended): no catch block restores an earlier state.  A rejected
\* upload leaves its mark: the image's record is failed, the img element, if
\* still in the region, carries the class failed, the title is kept, and
\* content and counts are kept unless the batch ends with this image (then
\* they are resynced from the region).  A throwing host command leaves state
\* and region as they are and defers no update.
C17_CaughtErrorKeepsFailureMark ==
    [][/\ \A f \in FlowIds, o \in {"notok", "reject"} :
             Settle(f, o) =>
                 LET id == flows[f].pending[flows[f].idx]
                     k == ImgIndex(dom', id)
                     last == flows[f].idx = Len(flows[f].pending)
                 IN /\ StatusOf(editorState, id) # "absent" =>
                           StatusOf(editorState', id) = "failed"
                    /\ k # 0 =>
                           \E c \in 1..Len(dom'[k].cls) :
                               dom'[k].cls[c] = "failed"
                    /\ editorState'.title = editorState.title
                    /\ IF last
                       THEN editorState'.content = innerHTML(dom')
                       ELSE editorState'.content = editorState.content
       /\ ExecuteCommand("threw") => UNCHANGED <<editorState, dom, timers>>]_vars

\* an upload was rejected: its record is failed and its img element marked
C17_Witness ==
    /\ lastOp.op = "settleLast"
    /\ lastOp.threw
    /\ Len(editorState.pendingImages) = 1
    /\ editorState.pendingImages[1].status = "failed"
    /\ \E k \in 1..Len(dom) : dom[k].kind = "img" /\ dom[k].cls = <<"failed">>

\* C18: getValidationResult is idempotent: two consecutive calls with no
\* mutation of the editor between them return identical results, the same
\* success, error and data, metadata included.
C18_ValidationIsIdempotent ==
    [][lastOp.op = "getValidationResult" /\
       lastOp'.op = "getValidationResult" /\
       editorState' = editorState /\ dom' = dom =>
           lastOp'.result = lastOp.result]_vars

\* C19: after updateContent("<p>Hello world</p>") the word count is 2 and
\* the character count is 19.
C19_HelloWorldCounts19 ==
    lastOp.op = "updateContent" /\ editorState.content = HelloWorld =>
        editorState.wordCount = 2 /\ editorState.characterCount = 19

\* C19, amended: after updateContent("<p>Hello world</p>") the word count is
\* 2 and the character count is 18, the length of the markup.
C19_HelloWorldCounts18 ==
    lastOp.op = "updateContent" /\ editorState.content = HelloWorld =>
        editorState.wordCount = 2 /\ editorState.characterCount = 18

\* updateContent has been called with "<p>Hello world</p>"
C19_Witness ==
    lastOp.op = "updateContent" /\ editorState.content = HelloWorld /\
    editorState.hasUnsavedChanges

\* a state that passes the schema: a title of 1 to MaxTitleLength characters
\* and a content that is not empty
ValidState(st) ==
    st.title # <<>> /\ Len(st.title) <= MaxTitleLength /\ st.content # <<>>

\* the kinds of the pieces of a document, in order
PartsOf(doc) == [i \in 1..Len(doc) |-> doc[i].part]

\* the content of the editor as exportToHTML reads it: the markup of the
\* region and, the region being empty, the content of the state
CurrentContent ==
    IF innerHTML(dom) # <<>> THEN innerHTML(dom) ELSE editorState.content

\* C20: for every valid state, exportToHTML({includeStyles: false,
\* includeMeta: false}) returns the title and the current content and
\* nothing else, no style block and no metadata block; whatever the options,
\* the metadata block is present exactly when includeMeta is true and the
\* style block exactly when includeStyles is true.
C20_ExportBlocksFollowOptions ==
    ValidState(editorState) =>
        \A o \in ExportOptions :
            LET r == exportToHTML(editorState, dom, o[1], o[2], now)
                n == Len(r.doc)
                kinds == {r.doc[i].part : i \in 1..n}
            IN /\ ~r.threw
               /\ "style" \in kinds <=> o[1]
               /\ "document-meta" \in kinds <=> o[2]
               /\ n > 0 /\ r.doc[n].part = "content"
               /\ r.doc[n].text = CurrentContent
               /\ o = <<FALSE, FALSE>> => PartsOf(r.doc) = <<"title", "content">>

\* exportToHTML has been called on a valid document whose plain export is
\* the title and the content and whose full export has both blocks
C20_Witness ==
    /\ lastOp.op = "exportToHTML" /\ ~lastOp.threw
    /\ ValidState(editorState)
    /\ PartsOf(exportToHTML(editorState, dom, FALSE, FALSE, now).doc) =
           <<"title", "content">>
    /\ PartsOf(exportToHTML(editorState, dom, TRUE, TRUE, now).doc) =
           <<"title", "style", "document-meta", "content">>

\* content or title changes in this step
Mutation == Args(editorState') # Args(editorState)

\* C21: with an onChange callback supplied, every change of the state's
\* content or title, the change made by clearing the editor included, is
\* eventually followed by an onChange invocation that carries the current
\* content and title (unless content and title never stop changing).
C21_ChangeEventuallyNotified ==
    []<>(~notifier.dirty) \/ []<><<Mutation>>_vars

\* C22: with debounceDelay > 0, onChange is never invoked sooner than
\* debounceDelay after the most recent content or title mutation, and the
\* invocation that ends a burst of mutations carries the content and title of
\* the last mutation, which are those of the state.
C22_DebouncedNotification ==
    [][notifier.mode = "debounced" /\ notifier'.flip # notifier.flip =>
          /\ notifier.since = DebounceDelay
          /\ notifier'.delivered = Args(editorState')]_vars

\* C23: whenever executeCommand invokes the host's command, the selection
\* is the one captured before the call when that one was inside the editor,
\* and otherwise (no selection, or a selection outside the editor) a range
\* collapsed at the end of the editor's content.
C23_CommandSelectionInsideEditor ==
    [][\A o \in {"changed", "unchanged", "failed", "threw"},
          s \in Selections, m \in BOOLEAN :
          ExecuteCommandAt(o, s, m) =>
              lastOp'.selection = IF s = "inside" THEN "saved" ELSE "end"]_vars

\* C24: while readOnly is true, no toolbar command, Tab key press, keyboard
\* shortcut or file selection changes the document's content, title or
\* pendingImages.
C24_ReadOnlyDocumentUnchanged ==
    [][readOnly =>
          /\ editorState'.content = editorState.content
          /\ editorState'.title = editorState.title
          /\ editorState'.pendingImages = editorState.pendingImages]_vars

\* C25: the uploader is invoked at most once for each pendingImages record,
\* also when uploadPendingImages is triggered again while an earlier batch
\* still awaits an upload, and at most one upload call is in flight in the
\* editor.
C25_UploaderOncePerRecord ==
    /\ \A id \in ImageIdSet : uploadCalls[id] <= 1
    /\ Cardinality(inflight) <= 1

\* the content embedded in a document
ContentOf(doc) == doc[Len(doc)].text

\* C26: when a save has uploaded pending images and then invokes
\* onSave(content, html), the content argument is the editor's content after
\* the uploads and is the content embedded in the html argument.
C26_SaveDeliversContentAfterUploads ==
    [][\A f \in FlowIds :
          flows[f].pc = "await" /\ flows'[f].pc = "idle" /\
          flows[f].kind = "save" /\ lastOp'.called = "onSave" =>
              LET args == OnSaveArgs(flows[f].closure, dom')
              IN /\ args.content = editorState'.content
                 /\ args.content = ContentOf(args.html)]_vars

\* C27: in every document exportToHTML returns with includeMeta true, the
\* word and character counts written in the metadata block are the counts of
\* the content embedded in that document.
C27_MetaCountsMatchEmbeddedContent ==
    LET doc == exportToHTML(editorState, dom, TRUE, TRUE, now).doc
        meta == CHOOSE i \in 1..Len(doc) : doc[i].part = "document-meta"
    IN /\ doc[meta].words = WordCount(ContentOf(doc))
       /\ doc[meta].chars = CharacterCount(ContentOf(doc))

\* C28: if every upload call eventually resolves or rejects, every run of
\* uploadPendingImages terminates, and every record that is uploading
\* eventually is uploaded or failed, or has been removed by a clear.
C28_UploadsTerminate ==
    /\ \A f \in FlowIds : flows[f].pc = "await" ~> flows[f].pc = "idle"
    /\ \A id \in ImageIdSet :
           StatusOf(editorState, id) = "uploading" ~>
               StatusOf(editorState, id) \in {"uploaded", "failed", "absent"}

\* a batch of two has run to its end, its first upload failed, and nothing
\* is uploading
C28_Witness ==
    /\ lastOp.op = "settleLast"
    /\ \A f \in FlowIds : flows[f].pc = "idle"
    /\ Len(editorState.pendingImages) = 2
    /\ editorState.pendingImages[1].status = "failed"
    /\ editorState.pendingImages[2].status \in {"uploaded", "failed"}

\* C29: when the initialContent prop changes to a value that differs from
\* the content last committed, the state's content, its counts and the
\* editable region are replaced by that value and hasUnsavedChanges becomes
\* false; when it changes to the content last committed, the state and the
\* region are left as they are.
C29_InitialContentReplacesOrEchoes ==
    [][\A c \in InitialContents :
          SetInitialContent(c) =>
              IF c # editorState.content
              THEN /\ editorState'.content = c
                   /\ editorState'.wordCount = WordCount(c)
                   /\ editorState'.characterCount = CharacterCount(c)
                   /\ ~editorState'.hasUnsavedChanges
                   /\ editorState'.title = editorState.title
                   /\ editorState'.pendingImages = editorState.pendingImages
                   /\ dom' = ParseHTML(c)
              ELSE UNCHANGED <<editorState, dom>>]_vars

\* the prop has replaced a document with unsaved changes
C29_Witness ==
    /\ lastOp.op = "initialContent"
    /\ editorState.content = <<"a", " ", "&">>
    /\ initialContent = <<"a", " ", "&">>
    /\ ~editorState.hasUnsavedChanges
    /\ editorState.pendingImages # <<>>

\* the prop has echoed the content the editor had committed, and the unsaved
\* changes stay unsaved
C29_EchoWitness ==
    /\ lastOp.op = "initialContent"
    /\ initialContent = <<>>
    /\ editorState.content = <<>>
    /\ editorState.hasUnsavedChanges

\* C30: the pending-image count shown to the user is the number of
\* pendingImages records whose status is pending; it is 0 once every record
\* is uploaded or failed.
C30_ShownCountIsPendingCount ==
    pendingImagesCount(editorState) =
        Cardinality({i \in 1..Len(editorState.pendingImages) :
                        editorState.pendingImages[i].status = "pending"})
====
